---- MODULE Spec2Model ----
(***************************************************************************)
(* Platformer-Demo, src/main.py: the tile grid (TileMap), the per-frame    *)
(* player physics and collision passes of main(), the particle list and    *)
(* the camera easing.                                                      *)
(*                                                                         *)
(* Lengths and speeds are kept in hundredths of a pixel (Unit = 100), so   *)
(* that every constant of the program (0.65, 0.6, 0.8, 0.25, 0.01) is an   *)
(* integer and arithmetic is exact decimal arithmetic.                     *)
(***************************************************************************)
EXTENDS Integers, Sequences, FiniteSets, TLC

VARIABLES tilemap, player_hitbox, player_x, player_y, h_speed, v_speed,
          just_pressed_timer, jump_grace_duration, current_extra_jumps,
          facing, in_extra_jump, frame_timer, particles, camera_pos,
          keys, audio, ground_contact, last_call

vars == <<tilemap, player_hitbox, player_x, player_y, h_speed, v_speed,
          just_pressed_timer, jump_grace_duration, current_extra_jumps,
          facing, in_extra_jump, frame_timer, particles, camera_pos,
          keys, audio, ground_contact, last_call>>

(* ---------------------------------------------------------------------- *)
(* Program constants, in hundredths of a pixel                             *)
(* ---------------------------------------------------------------------- *)
Unit == 100
game_width == 40000
game_height == 28800
gravity == 65
max_gravity == 1000
acceleration == 60
friction == 80
top_speed == 500
initial_jump_speed == 400
just_pressed_timer_duration == 8
jump_increase_velocity == 25
jump_grace_frames == 5
extra_jumps == 1
walk_timer == 12
Epsilon == 1
CellSize == 1600

(* ---------------------------------------------------------------------- *)
(* Helpers                                                                 *)
(* ---------------------------------------------------------------------- *)
clamp(val, min, max) ==
    IF val > max THEN max
    ELSE IF val < min THEN min
    ELSE val

sign(val) ==
    IF val > 0 THEN 1
    ELSE IF val < 0 THEN -1
    ELSE 0

abs(val) == IF val < 0 THEN -val ELSE val

\* kn.Rect(x, y, w, h)
Rect(x, y, w, h) == [x |-> x, y |-> y, w |-> w, h |-> h]
RectRight(r) == r.x + r.w
RectBottom(r) == r.y + r.h

\* The absent rectangle (None) is the empty sequence, a rectangle r is <<r>>.
None == <<>>

(* ---------------------------------------------------------------------- *)
(* class TileMap                                                           *)
(* ---------------------------------------------------------------------- *)
TileMapNew(width, height, cell_width, cell_height) ==
    [width |-> width, height |-> height,
     cell_width |-> cell_width, cell_height |-> cell_height,
     tiles |-> [i \in 0..(width * height - 1) |-> 0]]

\* TileMap.set that does not test x against the width
TileMapSet_NoWidthTest(tm, x, y, val) ==
    IF x < 0 \/ y < 0 \/ y >= tm.height THEN tm
    ELSE IF (y * tm.width) + x \in DOMAIN tm.tiles
         THEN [tm EXCEPT !.tiles[(y * tm.width) + x] = val]
         ELSE tm

TileMapSet(tm, x, y, val) ==
    IF x < 0 \/ x >= tm.width \/ y < 0 \/ y >= tm.height THEN tm
    ELSE [tm EXCEPT !.tiles[(y * tm.width) + x] = val]

TileMapGet(tm, x, y) ==
    IF x < 0 \/ x >= tm.width \/ y < 0 \/ y >= tm.height THEN 1
    ELSE tm.tiles[(y * tm.width) + x]

\* floor(a / b) for b > 0
FloorDiv(a, b) == a \div b

\* colliding that samples only the top-left and the bottom-right corner
colliding_Diagonal(tm, x, y, hitbox) ==
    LET x1 == FloorDiv(hitbox.x + x, tm.cell_width)
        y1 == FloorDiv(hitbox.y + y, tm.cell_height)
        x2 == FloorDiv((hitbox.x + x) + hitbox.w, tm.cell_width)
        y2 == FloorDiv((hitbox.y + y) + hitbox.h, tm.cell_height)
    IN  \/ TileMapGet(tm, x1, y1) # 0
        \/ TileMapGet(tm, x2, y2) # 0

colliding(tm, x, y, hitbox) ==
    LET x1 == FloorDiv(hitbox.x + x, tm.cell_width)
        y1 == FloorDiv(hitbox.y + y, tm.cell_height)
        x2 == FloorDiv((hitbox.x + x) + hitbox.w, tm.cell_width)
        y2 == FloorDiv((hitbox.y + y) + hitbox.h, tm.cell_height)
    IN  \/ TileMapGet(tm, x1, y1) # 0
        \/ TileMapGet(tm, x2, y1) # 0
        \/ TileMapGet(tm, x1, y2) # 0
        \/ TileMapGet(tm, x2, y2) # 0

CellRect(tm, cx, cy) ==
    Rect(cx * tm.cell_width, cy * tm.cell_height, tm.cell_width, tm.cell_height)

\* colliding_with that tests the bottom-left corner before the top-right one
colliding_with_ColumnFirst(tm, x, y, hitbox) ==
    LET x1 == FloorDiv(hitbox.x + x, tm.cell_width)
        y1 == FloorDiv(hitbox.y + y, tm.cell_height)
        x2 == FloorDiv((hitbox.x + x) + hitbox.w, tm.cell_width)
        y2 == FloorDiv((hitbox.y + y) + hitbox.h, tm.cell_height)
    IN  IF TileMapGet(tm, x1, y1) # 0 THEN <<CellRect(tm, x1, y1)>>
        ELSE IF TileMapGet(tm, x1, y2) # 0 THEN <<CellRect(tm, x1, y2)>>
        ELSE IF TileMapGet(tm, x2, y1) # 0 THEN <<CellRect(tm, x2, y1)>>
        ELSE IF TileMapGet(tm, x2, y2) # 0 THEN <<CellRect(tm, x2, y2)>>
        ELSE None

colliding_with(tm, x, y, hitbox) ==
    LET x1 == FloorDiv(hitbox.x + x, tm.cell_width)
        y1 == FloorDiv(hitbox.y + y, tm.cell_height)
        x2 == FloorDiv((hitbox.x + x) + hitbox.w, tm.cell_width)
        y2 == FloorDiv((hitbox.y + y) + hitbox.h, tm.cell_height)
    IN  IF TileMapGet(tm, x1, y1) # 0 THEN <<CellRect(tm, x1, y1)>>
        ELSE IF TileMapGet(tm, x2, y1) # 0 THEN <<CellRect(tm, x2, y1)>>
        ELSE IF TileMapGet(tm, x1, y2) # 0 THEN <<CellRect(tm, x1, y2)>>
        ELSE IF TileMapGet(tm, x2, y2) # 0 THEN <<CellRect(tm, x2, y2)>>
        ELSE None

total_width(tm) == tm.cell_width * tm.width
total_height(tm) == tm.cell_height * tm.height

(* ---------------------------------------------------------------------- *)
(* Level load: the flat tile list is written row by row, wrapping the      *)
(* column counter at `wrap` (200 in main()).                               *)
(* ---------------------------------------------------------------------- *)
RECURSIVE LoadTiles(_, _, _, _, _, _)
LoadTiles(tm, tiles, i, acc, y, wrap) ==
    IF i > Len(tiles) THEN tm
    ELSE LET tm1 == TileMapSet(tm, acc, y, tiles[i])
             acc1 == acc + 1
         IN  IF acc1 = wrap
             THEN LoadTiles(tm1, tiles, i + 1, 0, y + 1, wrap)
             ELSE LoadTiles(tm1, tiles, i + 1, acc1, y, wrap)

\* The load loop with the row wrap taken one column late
LoadLevel_WrapLate(tm, tiles, wrap) == LoadTiles(tm, tiles, 1, 0, 0, wrap + 1)

LoadLevel(tm, tiles, wrap) == LoadTiles(tm, tiles, 1, 0, 0, wrap)

(* ---------------------------------------------------------------------- *)
(* class Particle and spawn_particles                                      *)
(* ---------------------------------------------------------------------- *)
ParticleNew(x, y, hs, vs, lifetime) ==
    [x |-> x, y |-> y, h_speed |-> hs, v_speed |-> vs,
     lifetime |-> lifetime, max_life |-> lifetime]

\* Particle.draw: the particle after one advance; its life is up when the
\* new lifetime is <= 0.  tex.alpha is lifetime / max_life.
ParticleDraw(p, accelerate_x, accelerate_y) ==
    LET hs == p.h_speed + accelerate_x
        vs == p.v_speed + accelerate_y
    IN  [p EXCEPT !.h_speed = hs, !.v_speed = vs,
                  !.x = p.x + hs, !.y = p.y + vs,
                  !.lifetime = p.lifetime - 1]

\* A life test that lets a particle with lifetime 0 live one more tick
ParticleLifeUp_Negative(p) == p.lifetime < 0

ParticleLifeUp(p) == p.lifetime <= 0

\* Samples of rand(-spread / 2, spread / 2) for angle -3.14/2, spread
\* 3.14/4, speed 4, given as the resulting velocity (cos(dir) * speed,
\* sin(dir) * speed) in hundredths.  The particle velocity feeds no other
\* state of the program.
SpreadSamples == {<<0, -400>>}

spawn_particles(ps, count, lifetime, x, y, dirs) ==
    ps \o [i \in 1..count |-> ParticleNew(x, y, dirs[i][1], dirs[i][2], lifetime)]

\* The kill list pass of the main loop: advance every particle, then remove
\* those whose life is up.
AdvanceParticles(ps) ==
    LET drawn == [i \in 1..Len(ps) |-> ParticleDraw(ps[i], 0, gravity)]
    IN  SelectSeq(drawn, LAMBDA p : ~ParticleLifeUp(p))

(* ---------------------------------------------------------------------- *)
(* Camera easing and clamp.  The product with 0.25 is rounded down to a    *)
(* hundredth.                                                              *)
(* ---------------------------------------------------------------------- *)
CameraEase(pos, target) == pos + ((target - pos) \div 4)

\* CameraUpdate that clamps to the world instead of the world minus the view
CameraUpdate_WorldClamp(cam, px, py, tm) ==
    LET target_x == px - (40000 \div 2)
        target_y == py - (28800 \div 2)
    IN  [x |-> clamp(CameraEase(cam.x, target_x), 0, total_width(tm)),
         y |-> clamp(CameraEase(cam.y, target_y), 0, total_height(tm))]

CameraUpdate(cam, px, py, tm) ==
    LET target_x == px - (40000 \div 2)
        target_y == py - (28800 \div 2)
    IN  [x |-> clamp(CameraEase(cam.x, target_x), 0, total_width(tm) - 40000),
         y |-> clamp(CameraEase(cam.y, target_y), 0, total_height(tm) - 28800)]

(* ---------------------------------------------------------------------- *)
(* One iteration of the main loop.  k is the keyboard state polled at the  *)
(* start of the frame; `keys` holds the state of the previous frame, so    *)
(* is_just_pressed(S_UP) is k.up /\ ~keys.up.                              *)
(* ---------------------------------------------------------------------- *)
KeyStates == [left : BOOLEAN, right : BOOLEAN, up : BOOLEAN]
NoKeys == [left |-> FALSE, right |-> FALSE, up |-> FALSE]

JustPressedUp(prev, k) == k.up /\ ~prev.up

CurrentAcc(k) ==
    (IF k.left THEN -acceleration ELSE 0) + (IF k.right THEN acceleration ELSE 0)

\* HSpeedAfterInput whose friction never snaps to zero
HSpeedAfterInput_NoSnap(hs, current_acc) ==
    LET h1 == clamp(hs + current_acc, -top_speed, top_speed)
    IN  IF h1 # 0 /\ current_acc = 0
        THEN h1 - sign(h1) * friction
        ELSE h1

\* HSpeedAfterInput with the cap applied before the acceleration is added
HSpeedAfterInput_CapFirst(hs, current_acc) ==
    LET h1 == clamp(hs, -top_speed, top_speed) + current_acc
    IN  IF h1 # 0 /\ current_acc = 0
        THEN IF sign(h1 - (sign(h1) * friction)) # sign(h1)
             THEN 0
             ELSE h1 - sign(h1) * friction
        ELSE h1

\* lines 228-233
HSpeedAfterInput(hs, current_acc) ==
    LET h1 == clamp(hs + current_acc, -top_speed, top_speed)
    IN  IF h1 # 0 /\ current_acc = 0
        THEN IF sign(h1 - (sign(h1) * friction)) # sign(h1)
             THEN 0
             ELSE h1 - sign(h1) * friction
        ELSE h1

\* VSpeedAfterGravity with the clamp applied before gravity is added
VSpeedAfterGravity_ClampFirst(vs) == clamp(vs, -max_gravity, max_gravity) + gravity

\* line 236
VSpeedAfterGravity(vs) == clamp(vs + gravity, -max_gravity, max_gravity)

\* line 245
Grounded == colliding(tilemap, player_x, player_y + Unit, player_hitbox)

\* GroundTest without the reset of the grace counter on ground contact
GroundTest_NoGraceReset(grounded, grace, extra, inx) ==
    [landed |-> grounded /\ grace <= 0,
     grace |-> grace - 1,
     extra |-> IF grounded THEN extra_jumps ELSE extra,
     inx |-> IF grounded THEN FALSE ELSE inx]

\* lines 245-253: the landing edge and the counters after the ground test
GroundTest(grounded, grace, extra, inx) ==
    [landed |-> grounded /\ grace <= 0,
     grace |-> (IF grounded THEN jump_grace_frames ELSE grace) - 1,
     extra |-> IF grounded THEN extra_jumps ELSE extra,
     inx |-> IF grounded THEN FALSE ELSE inx]

\* JumpStep that accepts a jump only within the grace window
JumpStep_GraceOnly(vs, jpt, grace, extra, inx, up, just_up) ==
    LET v2 == IF up /\ jpt > 0 THEN vs - (jump_increase_velocity + gravity) ELSE vs
        jump == just_up /\ grace > 0
        air == jump /\ grace <= 0
    IN  [v |-> IF jump THEN -initial_jump_speed ELSE v2,
         jpt |-> (IF jump THEN just_pressed_timer_duration ELSE jpt) - 1,
         extra |-> IF air THEN extra - 1 ELSE extra,
         inx |-> IF air THEN TRUE ELSE inx,
         jumped |-> jump,
         boosted |-> up /\ jpt > 0]

\* JumpStep that accepts every press edge
JumpStep_EveryPress(vs, jpt, grace, extra, inx, up, just_up) ==
    LET v2 == IF up /\ jpt > 0 THEN vs - (jump_increase_velocity + gravity) ELSE vs
        jump == just_up
        air == jump /\ grace <= 0
    IN  [v |-> IF jump THEN -initial_jump_speed ELSE v2,
         jpt |-> (IF jump THEN just_pressed_timer_duration ELSE jpt) - 1,
         extra |-> IF air THEN extra - 1 ELSE extra,
         inx |-> IF air THEN TRUE ELSE inx,
         jumped |-> jump,
         boosted |-> up /\ jpt > 0]

\* lines 256-267
JumpStep(vs, jpt, grace, extra, inx, up, just_up) ==
    LET v2 == IF up /\ jpt > 0 THEN vs - (jump_increase_velocity + gravity) ELSE vs
        jump == just_up /\ (grace > 0 \/ extra > 0)
        air == jump /\ grace <= 0
    IN  [v |-> IF jump THEN -initial_jump_speed ELSE v2,
         jpt |-> (IF jump THEN just_pressed_timer_duration ELSE jpt) - 1,
         extra |-> IF air THEN extra - 1 ELSE extra,
         inx |-> IF air THEN TRUE ELSE inx,
         jumped |-> jump,
         boosted |-> up /\ jpt > 0]

\* lines 275-282: <<player_x, h_speed>> after the horizontal pass
HorizontalPass(tm, hitbox, px, py, hs) ==
    LET collider == colliding_with(tm, px + hs, py - Epsilon, hitbox)
        x1 == IF collider # None
              THEN IF hs > 0 THEN collider[1].x - (hitbox.w + hitbox.x + Epsilon)
                   ELSE IF hs < 0 THEN RectRight(collider[1]) - hitbox.x
                   ELSE px
              ELSE px
        h1 == IF collider # None THEN 0 ELSE hs
    IN  [x |-> x1 + h1, h |-> h1]

\* VerticalPass that snaps the player's origin, not the hitbox bottom, to the
\* top of the blocking cell
VerticalPass_SnapOrigin(tm, hitbox, px, py, hs, vs) ==
    LET collider == colliding_with(tm, px, py + vs, hitbox)
        y1 == IF collider # None
              THEN IF vs > 0 THEN collider[1].y - hitbox.y
                   ELSE IF hs < 0 THEN RectBottom(collider[1]) - hitbox.y + Epsilon
                   ELSE py
              ELSE py
        v1 == IF collider # None THEN 0 ELSE vs
    IN  [y |-> y1 + v1, v |-> v1]

\* VerticalPass that tests the current position instead of the next one
VerticalPass_NoLookahead(tm, hitbox, px, py, hs, vs) ==
    LET collider == colliding_with(tm, px, py, hitbox)
        y1 == IF collider # None
              THEN IF vs > 0 THEN collider[1].y - (hitbox.h + hitbox.y)
                   ELSE IF hs < 0 THEN RectBottom(collider[1]) - hitbox.y + Epsilon
                   ELSE py
              ELSE py
        v1 == IF collider # None THEN 0 ELSE vs
    IN  [y |-> y1 + v1, v |-> v1]

\* lines 285-292: <<player_y, v_speed>> after the vertical pass
VerticalPass(tm, hitbox, px, py, hs, vs) ==
    LET collider == colliding_with(tm, px, py + vs, hitbox)
        y1 == IF collider # None
              THEN IF vs > 0 THEN collider[1].y - (hitbox.h + hitbox.y)
                   ELSE IF hs < 0 THEN RectBottom(collider[1]) - hitbox.y + Epsilon
                   ELSE py
              ELSE py
        v1 == IF collider # None THEN 0 ELSE vs
    IN  [y |-> y1 + v1, v |-> v1]

\* The values of the loop's variables at the end of one iteration, for the
\* polled keyboard state k and is_just_pressed(S_UP) = just_up.
Step(k, just_up) ==
    LET current_acc == CurrentAcc(k)
        h1 == HSpeedAfterInput(h_speed, current_acc)
        v1 == VSpeedAfterGravity(v_speed)
        g == GroundTest(Grounded, jump_grace_duration, current_extra_jumps, in_extra_jump)
        ps1 == IF g.landed
               THEN LET dirs == [i \in 1..10 |-> CHOOSE d \in SpreadSamples : TRUE]
                    IN  spawn_particles(particles, 10, 15, player_x + 8 * Unit,
                                        player_y + 16 * Unit, dirs)
               ELSE particles
        j == JumpStep(v1, just_pressed_timer, g.grace, g.extra, g.inx, k.up, just_up)
        hp == HorizontalPass(tilemap, player_hitbox, player_x, player_y, h1)
        vp == VerticalPass(tilemap, player_hitbox, hp.x, player_y, hp.h, j.v)
        walk == frame_timer % walk_timer = 0
                /\ abs(hp.h) * 100 > top_speed * 15
                /\ g.grace > 0
    IN  [h_speed |-> hp.h,
         player_x |-> hp.x,
         v_speed |-> vp.v,
         player_y |-> vp.y,
         facing |-> IF current_acc < 0 THEN -1
                    ELSE IF current_acc > 0 THEN 1
                    ELSE facing,
         jump_grace_duration |-> g.grace,
         current_extra_jumps |-> j.extra,
         in_extra_jump |-> j.inx,
         just_pressed_timer |-> j.jpt,
         audio |-> (IF g.landed THEN {"land"} ELSE {})
                   \cup (IF j.jumped THEN {"jump"} ELSE {})
                   \cup (IF walk THEN {"walk"} ELSE {}),
         particles |-> AdvanceParticles(ps1),
         camera_pos |-> CameraUpdate(camera_pos, hp.x, vp.y, tilemap),
         v_jump |-> j.v]

NoContact ==
    [ticks |-> 0, lands |-> 0, fresh |-> FALSE, air |-> 0, jumps |-> 0, hold |-> -1]

\* Consecutive frames of ground contact up to and including this one, the
\* landing effects fired during them, and whether the contact began with the
\* grace exhausted; consecutive frames without ground contact up to and
\* including this one, and the jumps started since the last frame with
\* ground contact, that frame included; the frames since the last jump
\* start during all of which the jump key was down (-1 when there is no
\* such jump).
ContactAfter(c, grounded, grace, land_played, jumped, up) ==
    LET hold == IF jumped THEN 0
                ELSE IF c.hold >= 0 /\ up THEN c.hold + 1
                ELSE -1
    IN  IF ~grounded
        THEN [NoContact EXCEPT !.air = c.air + 1,
                               !.jumps = c.jumps + (IF jumped THEN 1 ELSE 0),
                               !.hold = hold]
        ELSE [ticks |-> c.ticks + 1,
              lands |-> c.lands + (IF land_played THEN 1 ELSE 0),
              fresh |-> IF c.ticks = 0 THEN grace <= 0 ELSE c.fresh,
              air |-> 0,
              jumps |-> IF jumped THEN 1 ELSE 0,
              hold |-> hold]

Tick(k) ==
    \E s \in {Step(k, JustPressedUp(keys, k))} :
        /\ keys' = k
        /\ h_speed' = s.h_speed
        /\ player_x' = s.player_x
        /\ v_speed' = s.v_speed
        /\ player_y' = s.player_y
        /\ facing' = s.facing
        /\ jump_grace_duration' = s.jump_grace_duration
        /\ current_extra_jumps' = s.current_extra_jumps
        /\ in_extra_jump' = s.in_extra_jump
        /\ just_pressed_timer' = s.just_pressed_timer
        /\ audio' = s.audio
        /\ particles' = s.particles
        /\ camera_pos' = s.camera_pos
        /\ frame_timer' = frame_timer + 1
        /\ ground_contact' = ContactAfter(ground_contact, Grounded, jump_grace_duration,
                                          "land" \in s.audio, "jump" \in s.audio, k.up)
        /\ UNCHANGED <<tilemap, player_hitbox, last_call>>

(* ---------------------------------------------------------------------- *)
(* State of main() when the loop is entered, for a level `tm`, a hitbox    *)
(* and a spawn position.                                                   *)
(* ---------------------------------------------------------------------- *)
PlayerHitbox == Rect(2 * Unit, 1 * Unit, 12 * Unit, 15 * Unit)
NoCall == [op |-> "none", x |-> 0, y |-> 0, val |-> 0, ret |-> 0]

\* The loop's state for a level tm, a hitbox, a position, a velocity and the
\* jump counters grace, extra, jpt, and a camera position.
PlayInit(tm, hitbox, px, py, hs, vs, grace, extra, jpt, cam) ==
    /\ tilemap = tm
    /\ player_hitbox = hitbox
    /\ player_x = px
    /\ player_y = py
    /\ h_speed = hs
    /\ v_speed = vs
    /\ just_pressed_timer = jpt
    /\ jump_grace_duration = grace
    /\ current_extra_jumps = extra
    /\ facing = 1
    /\ in_extra_jump = FALSE
    /\ frame_timer = 0
    /\ particles = <<>>
    /\ camera_pos = cam
    /\ keys = NoKeys
    /\ audio = {}
    /\ ground_contact = NoContact
    /\ last_call = NoCall

\* lines 149-175: the state when the loop is entered
MainInit(tm, hitbox, px, py) ==
    PlayInit(tm, hitbox, px, py, 0, 0, 0, 0, 0, [x |-> 0, y |-> 0])

\* Hitbox edges in world coordinates
HitLeft == player_x + player_hitbox.x
HitRight == player_x + player_hitbox.x + player_hitbox.w
HitTop == player_y + player_hitbox.y
HitBottom == player_y + player_hitbox.y + player_hitbox.h

(* ---------------------------------------------------------------------- *)
(* Spec: the game from its initial state in a shaft one cell wide, every   *)
(* key sequence.  The player falls to terminal speed, lands and jumps.     *)
(* ---------------------------------------------------------------------- *)
MaxFrames == 19

ShaftHeight == 7

Shaft(height) == TileMapNew(1, height, CellSize, CellSize)

Init == MainInit(Shaft(ShaftHeight), PlayerHitbox, 0, 0)

Frame == frame_timer < MaxFrames /\ \E k \in KeyStates : Tick(k)

Next == Frame

Spec == Init /\ [][Next]_vars

(* ---------------------------------------------------------------------- *)
(* SpecRun: left and right keys in a room with a wall tile, the player     *)
(* standing on the floor.                                                  *)
(* ---------------------------------------------------------------------- *)
MaxFramesRun == 11

RunLevels ==
    { LoadLevel(TileMapNew(4, 1, CellSize, CellSize), <<0,0,0,0>>, 4),
      LoadLevel(TileMapNew(4, 1, CellSize, CellSize), <<0,0,0,3>>, 4) }

RunKeys == {k \in KeyStates : ~k.up}

InitRun ==
    \E tm \in RunLevels :
        MainInit(tm, PlayerHitbox, -2 * Unit, 0)

FrameRun == frame_timer < MaxFramesRun /\ \E k \in RunKeys : Tick(k)

NextRun == FrameRun

SpecRun == InitRun /\ [][NextRun]_vars

(* ---------------------------------------------------------------------- *)
(* SpecFall: an actor falling in a level of alternating empty and solid    *)
(* rows, from any position of an empty row at any speed in (0, 10].        *)
(* ---------------------------------------------------------------------- *)
MaxFramesFall == 4

Stripes ==
    LoadLevel(TileMapNew(2, 4, CellSize, CellSize), <<0,0, 1,1, 0,0, 1,1>>, 2)

FallXs == {-200, 0, 400, 1799}
FallYs == {-100, -50, -1, 0, 3100, 3150, 3199, 3200}
FallSpeeds == {5, 65, 100, 500, 935, 1000}

InitFall ==
    \E px \in FallXs, py \in FallYs, vs \in FallSpeeds :
        PlayInit(Stripes, PlayerHitbox, px, py, 0, vs, 0, 0, 0, [x |-> 0, y |-> 0])

FrameFall == frame_timer < MaxFramesFall /\ \E k \in KeyStates : Tick(k)

NextFall == FrameFall

SpecFall == InitFall /\ [][NextFall]_vars

SolidRow(tm, r) == \A c \in 0..(tm.width - 1) : TileMapGet(tm, c, r) # 0

\* C1: no tunneling.  A hitbox whose bottom is at or above the top edge of
\* a solid row still has its bottom at or above that edge at the end of
\* the frame.
Thm_C1_NoTunneling ==
    [][\A r \in 0..tilemap.height :
          (SolidRow(tilemap, r) /\ HitBottom <= r * tilemap.cell_height)
              => HitBottom' <= r * tilemap.cell_height]_vars

\* The actor has been stopped on the floor row 1 in its first frame.
Wit_C1_Landed ==
    /\ tilemap = Stripes
    /\ frame_timer = 1
    /\ v_speed = 0
    /\ HitBottom = 1 * CellSize

(* ---------------------------------------------------------------------- *)
(* SpecJump: the game from its initial state, the player spawned one pixel *)
(* above the floor of a shaft four cells high, every key sequence.         *)
(* ---------------------------------------------------------------------- *)
MaxFramesJump == 8

JumpShaftHeight == 4

InitJump ==
    MainInit(Shaft(JumpShaftHeight), PlayerHitbox, 0,
             JumpShaftHeight * CellSize - 17 * Unit)

JumpKeys == {k \in KeyStates : ~k.right}

FrameJump == frame_timer < MaxFramesJump /\ \E k \in JumpKeys : Tick(k)

NextJump == FrameJump

SpecJump == InitJump /\ [][NextJump]_vars

\* Particles spawned in the frame that has just ended (lifetime 15, advanced once)
FreshParticles == Len(SelectSeq(particles, LAMBDA p : p.lifetime = 15 - 1))

\* C2: during a ground contact that began with the grace exhausted, the
\* landing effect (land sound and 10 particles) fires in the first frame of
\* the contact and in no later frame of it.
Thm_C2_LandingOnce ==
    (ground_contact.ticks >= 1 /\ ground_contact.fresh) =>
        /\ ground_contact.lands = 1
        /\ ("land" \in audio) <=> (ground_contact.ticks = 1)
        /\ FreshParticles = (IF ground_contact.ticks = 1 THEN 10 ELSE 0)

\* The player has rested on the floor for three frames after a landing.
Wit_C2_Resting ==
    /\ ground_contact.fresh
    /\ ground_contact.ticks = 3
    /\ "land" \notin audio
    /\ Len(particles) = 10

\* A press edge of the jump key in the frame now ending
PressEdge == JustPressedUp(keys, keys')

\* At the jump check of the coming frame the grace is exhausted: no ground
\* contact, and the decremented grace counter is <= 0.
GraceExhausted == ~Grounded /\ jump_grace_duration - 1 <= 0

\* C5: a press edge with the grace exhausted and one extra jump left
\* performs the jump: v_speed is set to -initial_jump_speed (zeroed again
\* only by a ceiling hit in the same frame), the hold timer restarts, the
\* extra jump is consumed and in_extra_jump is set.
Thm_C5_AirJump ==
    [][(PressEdge /\ GraceExhausted /\ current_extra_jumps = 1) =>
          /\ v_speed' = (IF colliding(tilemap, player_x', player_y - initial_jump_speed,
                                      player_hitbox)
                         THEN 0 ELSE -initial_jump_speed)
          /\ just_pressed_timer' = just_pressed_timer_duration - 1
          /\ current_extra_jumps' = 0
          /\ in_extra_jump'
          /\ "jump" \in audio']_vars

\* The extra jump has just been performed.
Wit_C5_AirJumped ==
    /\ in_extra_jump
    /\ current_extra_jumps = 0
    /\ just_pressed_timer = just_pressed_timer_duration - 1
    /\ v_speed = -initial_jump_speed
    /\ "jump" \in audio

\* The frame ends as the frame s would
EndsLike(s) ==
    /\ v_speed' = s.v_speed
    /\ player_y' = s.player_y
    /\ just_pressed_timer' = s.just_pressed_timer
    /\ current_extra_jumps' = s.current_extra_jumps
    /\ in_extra_jump' = s.in_extra_jump

MaxFramesRest == 30

RestHitbox == Rect(0, 0, 12 * Unit, 15 * Unit)

\* Cell (0,0) is empty and cell (0,1) is solid; column 1 is arbitrary.
RestLevels ==
    { LoadLevel(TileMapNew(2, 2, CellSize, CellSize), <<0, a, 1, b>>, 2) :
        a \in {0, 1}, b \in {0, 1} }

InitRest == \E tm \in RestLevels : MainInit(tm, RestHitbox, 0, 0)

FrameRest == frame_timer < MaxFramesRest /\ Tick(NoKeys)

NextRest == FrameRest

SpecRest == InitRest /\ [][NextRest]_vars /\ WF_vars(FrameRest)

\* C7: the actor comes to rest with its hitbox bottom on the top of cell
\* row 1 (y = 16 - 15 = 1) and v_speed = 0, and stays there.
Thm_C7_StableRest ==
    <>[](/\ player_x = 0
         /\ player_y = 1 * CellSize - (RestHitbox.y + RestHitbox.h)
         /\ v_speed = 0)

\* The actor rests on the cell after having fallen onto it.
Wit_C7_AtRest ==
    /\ frame_timer >= 3
    /\ player_y = 1 * Unit
    /\ v_speed = 0
    /\ ground_contact.ticks >= 2

(* ---------------------------------------------------------------------- *)
(* SpecFriction: the player moving at top speed on the floor of a wide     *)
(* room, with no net horizontal input (neither key or both keys).          *)
(* ---------------------------------------------------------------------- *)
MaxFramesFriction == 8

FrictionRoom == TileMapNew(5, 1, CellSize, CellSize)

FrictionKeys == {k \in KeyStates : k.left = k.right}

InitFriction ==
    \E px \in {2000, 3000, 4000}, hs \in {top_speed, -top_speed} :
        PlayInit(FrictionRoom, PlayerHitbox, px, 0, hs, 0,
                 jump_grace_frames - 1, extra_jumps, -1, [x |-> 0, y |-> 0])

FrameFriction == frame_timer < MaxFramesFriction /\ \E k \in FrictionKeys : Tick(k)

NextFriction == FrameFriction

SpecFriction == InitFriction /\ [][NextFriction]_vars

\* ceil(top_speed / friction)
FrictionFrames == (top_speed + friction - 1) \div friction

\* C8: with no net horizontal input h_speed shrinks in every frame without
\* changing sign, and is exactly 0 after ceil(top_speed / friction) frames.
Thm_C8_Friction ==
    /\ [][/\ sign(h_speed') \in {0, sign(h_speed)}
          /\ h_speed # 0 => abs(h_speed') < abs(h_speed)
          /\ h_speed = 0 => h_speed' = 0]_vars
    /\ [](frame_timer >= FrictionFrames => h_speed = 0)

\* Friction has stopped the player in the last frame of the window.
Wit_C8_Stopped ==
    /\ frame_timer = FrictionFrames
    /\ h_speed = 0
    /\ abs(player_x - 3000) = 320 + 1000

(* ---------------------------------------------------------------------- *)
(* SpecTileMap: TileMap.set and TileMap.get called on a fresh TileMap with *)
(* coordinates inside and outside the grid.                                *)
(* ---------------------------------------------------------------------- *)
MaxGridWidth == 2
MaxTile == 1

GridHeights == {1, 2}

InitTileMap ==
    \E w \in 1..MaxGridWidth, h \in GridHeights :
        MainInit(TileMapNew(w, h, CellSize, CellSize), PlayerHitbox, 0, 0)

UnchangedGame ==
    UNCHANGED <<player_hitbox, player_x, player_y, h_speed, v_speed,
                just_pressed_timer, jump_grace_duration, current_extra_jumps,
                facing, in_extra_jump, frame_timer, particles, camera_pos,
                keys, audio, ground_contact>>

SetCall ==
    \E x \in -1..tilemap.width, y \in -1..tilemap.height, val \in 0..MaxTile :
        /\ tilemap' = TileMapSet(tilemap, x, y, val)
        /\ last_call' = [op |-> "set", x |-> x, y |-> y, val |-> val, ret |-> 0]
        /\ UnchangedGame

GetCall ==
    \E x \in -1..tilemap.width, y \in -1..tilemap.height :
        /\ last_call' = [op |-> "get", x |-> x, y |-> y, val |-> 0,
                         ret |-> TileMapGet(tilemap, x, y)]
        /\ UNCHANGED tilemap
        /\ UnchangedGame

NextTileMap == SetCall \/ GetCall

SpecTileMap == InitTileMap /\ [][NextTileMap]_vars

InGrid(tm, x, y) == x \in 0..(tm.width - 1) /\ y \in 0..(tm.height - 1)

\* C9: get outside the grid returns 1, set outside the grid changes no
\* cell; set inside the grid makes get return the value at that cell and
\* changes no other cell.
Thm_C9_OutOfRangeSafe ==
    [][LET c == last_call' IN
        /\ (c.op = "get" /\ ~InGrid(tilemap, c.x, c.y)) => c.ret = 1
        /\ (c.op = "set" /\ ~InGrid(tilemap, c.x, c.y)) => tilemap' = tilemap
        /\ (c.op = "set" /\ InGrid(tilemap, c.x, c.y)) =>
              /\ TileMapGet(tilemap', c.x, c.y) = c.val
              /\ \A x \in 0..(tilemap.width - 1), y \in 0..(tilemap.height - 1) :
                    <<x, y>> # <<c.x, c.y>> =>
                        TileMapGet(tilemap', x, y) = TileMapGet(tilemap, x, y)
              /\ tilemap'.width = tilemap.width
              /\ tilemap'.height = tilemap.height
              /\ DOMAIN tilemap'.tiles = DOMAIN tilemap.tiles]_vars

\* set has been called just right of a grid that holds a written tile.
Wit_C9_SetOutside ==
    /\ last_call.op = "set"
    /\ last_call.x = tilemap.width
    /\ last_call.y = 0
    /\ last_call.val = MaxTile
    /\ tilemap.height = 2
    /\ TileMapGet(tilemap, 0, 0) = 1

(* ---------------------------------------------------------------------- *)
(* SpecCamera: the game in wide levels, the player anywhere between the    *)
(* walls and the camera anywhere in its range.                             *)
(* ---------------------------------------------------------------------- *)
MaxFramesCamera == 3

CameraLevels ==
    { TileMapNew(100, 18, CellSize, CellSize),
      TileMapNew(100, 19, CellSize, CellSize),
      TileMapNew(200, 18, CellSize, CellSize) }

CameraKeys == {k \in KeyStates : ~k.up /\ ~(k.left /\ k.right)}

InitCamera ==
    \E tm \in CameraLevels :
    \E px \in {-200, 10000, 80000, 145000, total_width(tm) - 1401},
       py \in {10000, total_height(tm) - 1600},
       cx \in {0, 60000, total_width(tm) - 40000} :
        PlayInit(tm, PlayerHitbox, px, py, 0, 0, 0, 0, 0, [x |-> cx, y |-> 0])

FrameCamera == frame_timer < MaxFramesCamera /\ \E k \in CameraKeys : Tick(k)

NextCamera == FrameCamera

SpecCamera == InitCamera /\ [][NextCamera]_vars

\* C10: the camera position stays within [0, total_width - 400] x
\* [0, total_height - 288]; in the world 1600 wide pos.x never exceeds 1200.
Thm_C10_CameraClamped ==
    /\ 0 <= camera_pos.x
    /\ camera_pos.x <= total_width(tilemap) - game_width
    /\ 0 <= camera_pos.y
    /\ camera_pos.y <= total_height(tilemap) - game_height
    /\ total_width(tilemap) = 1600 * Unit => camera_pos.x <= 1200 * Unit

\* In the world 1600 wide the target is beyond 1200 and the camera is held
\* at 1200; in the world 304 high it is held at 16.
Wit_C10_HeldAtEdge ==
    /\ frame_timer >= 1
    /\ total_width(tilemap) = 1600 * Unit
    /\ total_height(tilemap) = 304 * Unit
    /\ player_x - (game_width \div 2) > 1200 * Unit
    /\ camera_pos.x = 1200 * Unit
    /\ camera_pos.y = 16 * Unit

(* ---------------------------------------------------------------------- *)
(* SpecCollide: TileMap.colliding and TileMap.colliding_with called on     *)
(* loaded grids with origins inside, on the border of and outside the      *)
(* grid, and hitboxes no larger than a cell.                               *)
(* ---------------------------------------------------------------------- *)
CollideGrids ==
    UNION { { LoadLevel(TileMapNew(w, 2, CellSize, CellSize), tiles, w) :
                tiles \in [1..(w * 2) -> {0, 1}] } : w \in 1..MaxGridWidth }

CollideXs == {-300, 300, 1400}
CollideYs == {-200, 400, 1500}
CollideSizes == {4 * Unit, 12 * Unit, CellSize}

CollideHitboxes ==
    { Rect(2 * Unit, 1 * Unit, w, h) : w \in CollideSizes, h \in CollideSizes }

InitCollide == \E tm \in CollideGrids : MainInit(tm, PlayerHitbox, 0, 0)

UnchangedPhysics ==
    UNCHANGED <<tilemap, h_speed, v_speed,
                just_pressed_timer, jump_grace_duration, current_extra_jumps,
                facing, in_extra_jump, frame_timer, particles, camera_pos,
                keys, audio, ground_contact>>

CollidingCall ==
    \E x \in CollideXs, y \in CollideYs, hitbox \in CollideHitboxes :
        /\ player_x' = x
        /\ player_y' = y
        /\ player_hitbox' = hitbox
        /\ last_call' = [op |-> "colliding", x |-> x, y |-> y, val |-> 0,
                         ret |-> colliding(tilemap, x, y, hitbox)]
        /\ UnchangedPhysics

CollidingWithCall ==
    \E x \in CollideXs, y \in CollideYs, hitbox \in CollideHitboxes :
        /\ player_x' = x
        /\ player_y' = y
        /\ player_hitbox' = hitbox
        /\ last_call' = [op |-> "colliding_with", x |-> x, y |-> y, val |-> 0,
                         ret |-> colliding_with(tilemap, x, y, hitbox)]
        /\ UnchangedPhysics

NextCollide == CollidingCall \/ CollidingWithCall

SpecCollide == InitCollide /\ [][NextCollide]_vars

\* Hitboxes with the offset of b that are at least as wide and as high as b
\* and no larger than a cell.
LargerHitboxes(tm, b) ==
    { Rect(b.x, b.y, w, h) : w \in {v \in CollideSizes : b.w <= v /\ v <= tm.cell_width},
                             h \in {v \in CollideSizes : b.h <= v /\ v <= tm.cell_height} }

\* C11: a hitbox reported colliding stays colliding when it is widened or
\* heightened, up to the size of a cell, at the same origin and offset.
Thm_C11_Monotonic ==
    (last_call.op = "colliding" /\ last_call.ret) =>
        \A big \in LargerHitboxes(tilemap, player_hitbox) :
            colliding(tilemap, player_x, player_y, big)

\* A hitbox smaller than a cell was reported colliding through its
\* bottom-left corner only.
Wit_C11_SmallCollides ==
    /\ last_call.op = "colliding"
    /\ last_call.ret
    /\ player_hitbox.w = 4 * Unit
    /\ player_hitbox.h = 12 * Unit
    /\ player_x = 300
    /\ player_y = 400
    /\ TileMapGet(tilemap, 0, 0) = 0
    /\ TileMapGet(tilemap, 0, 1) = 1
    /\ TileMapGet(tilemap, 1, 1) = 0

\* The cells of the four sampled corners, in the order top-left, top-right,
\* bottom-left, bottom-right.
CornerCells(tm, x, y, hitbox) ==
    LET l == (hitbox.x + x) \div tm.cell_width
        r == (hitbox.x + x + hitbox.w) \div tm.cell_width
        t == (hitbox.y + y) \div tm.cell_height
        b == (hitbox.y + y + hitbox.h) \div tm.cell_height
    IN  <<(<<l, t>>), (<<r, t>>), (<<l, b>>), (<<r, b>>)>>

\* C12: colliding_with returns None exactly when colliding is false, and
\* otherwise the rectangle of the first corner cell with a nonzero tile in
\* the order top-left, top-right, bottom-left, bottom-right.
Thm_C12_CornerPriority ==
    last_call.op = "colliding_with" =>
        LET cells == CornerCells(tilemap, player_x, player_y, player_hitbox)
            hits == {i \in 1..4 : TileMapGet(tilemap, cells[i][1], cells[i][2]) # 0}
        IN  /\ (last_call.ret = None)
                <=> ~colliding(tilemap, player_x, player_y, player_hitbox)
            /\ (hits = {}) <=> (last_call.ret = None)
            /\ hits # {} =>
                  LET first == CHOOSE i \in hits : \A j \in hits : i <= j
                  IN  last_call.ret =
                        << [x |-> cells[first][1] * tilemap.cell_width,
                            y |-> cells[first][2] * tilemap.cell_height,
                            w |-> tilemap.cell_width,
                            h |-> tilemap.cell_height] >>

\* colliding_with returned the bottom-left cell although the bottom-right
\* corner cell is solid too, the top cells being empty.
Wit_C12_BottomLeftFirst ==
    /\ last_call.op = "colliding_with"
    /\ tilemap.width = 2
    /\ TileMapGet(tilemap, 0, 0) = 0
    /\ TileMapGet(tilemap, 1, 0) = 0
    /\ TileMapGet(tilemap, 0, 1) = 1
    /\ TileMapGet(tilemap, 1, 1) = 1
    /\ player_x = 300
    /\ player_y = 400
    /\ player_hitbox.w = 12 * Unit
    /\ player_hitbox.h = 12 * Unit
    /\ last_call.ret = <<Rect(0, CellSize, CellSize, CellSize)>>

(* ---------------------------------------------------------------------- *)
(* Level load (lines 187-199) on grids LevelWidth wide, GridHeights high,  *)
(* for every flat tile list of at most MaxLevelLen entries.                *)
(* ---------------------------------------------------------------------- *)
LevelWidth == 2
MaxLevelLen == 6

TileLists == UNION { [1..n -> 0..MaxTile] : n \in 0..MaxLevelLen }

\* line 191: the flat list has been parsed, the grid is still empty
InitLoad ==
    \E tiles \in TileLists, h \in GridHeights :
        /\ tilemap = TileMapNew(LevelWidth, h, CellSize, CellSize)
        /\ player_hitbox = PlayerHitbox
        /\ player_x = 0
        /\ player_y = 0
        /\ h_speed = 0
        /\ v_speed = 0
        /\ just_pressed_timer = 0
        /\ jump_grace_duration = 0
        /\ current_extra_jumps = 0
        /\ facing = 1
        /\ in_extra_jump = FALSE
        /\ frame_timer = 0
        /\ particles = <<>>
        /\ camera_pos = [x |-> 0, y |-> 0]
        /\ keys = NoKeys
        /\ audio = {}
        /\ ground_contact = NoContact
        /\ last_call = [op |-> "tiles", x |-> 0, y |-> 0, val |-> tiles, ret |-> 0]

\* lines 192-199: the whole population loop
LoadCall ==
    /\ last_call.op = "tiles"
    /\ tilemap' = LoadLevel(tilemap, last_call.val, tilemap.width)
    /\ last_call' = [last_call EXCEPT !.op = "load"]
    /\ UnchangedGame

NextLoad == LoadCall

SpecLoad == InitLoad /\ [][NextLoad]_vars

\* C13: after the load, every list index i (from 0) whose row i div width
\* is inside the grid has get(i mod width, i div width) = tiles[i]; entries
\* of later rows change nothing, and cells without a list entry stay 0.
Thm_C13_RowMajorLoad ==
    last_call.op = "load" =>
        LET tiles == last_call.val
            w == tilemap.width
            h == tilemap.height
        IN  /\ \A i \in 0..(Len(tiles) - 1) :
                  (i \div w) < h =>
                      TileMapGet(tilemap, i % w, i \div w) = tiles[i + 1]
            /\ \A x \in 0..(w - 1), y \in 0..(h - 1) :
                  (y * w) + x >= Len(tiles) => TileMapGet(tilemap, x, y) = 0
            /\ DOMAIN tilemap.tiles = 0..(w * h - 1)

\* A list longer than the grid has been loaded: its second row holds a
\* tile and its overflow entries are nonzero.
Wit_C13_Overflow ==
    /\ last_call.op = "load"
    /\ Len(last_call.val) = MaxLevelLen
    /\ tilemap.height = 2
    /\ MaxLevelLen > tilemap.width * tilemap.height
    /\ last_call.val[MaxLevelLen] = 1
    /\ last_call.val[LevelWidth + 1] = 1
    /\ TileMapGet(tilemap, 0, 1) = 1
    /\ TileMapGet(tilemap, 0, 0) = 0

(* ---------------------------------------------------------------------- *)
(* Particles: the actor starts one pixel above the floor of a shaft and    *)
(* may jump; every landing spawns 10 particles of lifetime 15.             *)
(* ---------------------------------------------------------------------- *)
MaxFramesParticles == 18

ParticleKeys == {k \in KeyStates : ~k.left /\ ~k.right}

InitParticles == InitJump

FrameParticles ==
    frame_timer < MaxFramesParticles /\ \E k \in ParticleKeys : Tick(k)

NextParticles == FrameParticles

SpecParticles == InitParticles /\ [][NextParticles]_vars

\* tex.alpha = lifetime / max_life, in hundredths
Alpha(p) == (p.lifetime * Unit) \div p.max_life

Lifetimes(ps) == [i \in 1..Len(ps) |-> ps[i].lifetime]

\* The number of the tick whose landing spawned particle p
BirthTick(p) == frame_timer - (p.max_life - p.lifetime) + 1

\* Every particle in the list at the end of a tick is alive.
ParticlesAlive ==
    \A i \in 1..Len(particles) :
        /\ particles[i].max_life >= 1
        /\ particles[i].lifetime >= 1
        /\ particles[i].lifetime <= particles[i].max_life
        /\ Alpha(particles[i]) \in 0..Unit

\* One tick advances every listed particle exactly once: the drawn
\* lifetime and alpha are in range, a particle whose lifetime reaches 0 is
\* gone at the end of that tick, the others follow in their order with
\* lifetime one less, and the new ones have been advanced once.
ParticlesAged ==
    LET drawn == [i \in 1..Len(particles) |-> ParticleDraw(particles[i], 0, gravity)]
        aged == [i \in 1..Len(particles) |-> particles[i].lifetime - 1]
        kept == SelectSeq(aged, LAMBDA l : l > 0)
    IN  /\ \A i \in 1..Len(drawn) :
              /\ drawn[i].lifetime \in 0..drawn[i].max_life
              /\ Alpha(drawn[i]) \in 0..Unit
        /\ Len(particles') >= Len(kept)
        /\ SubSeq(Lifetimes(particles'), 1, Len(kept)) = kept
        /\ \A i \in (Len(kept) + 1)..Len(particles') :
              /\ particles'[i].max_life >= 1
              /\ particles'[i].lifetime = particles'[i].max_life - 1
        /\ \A i \in 1..Len(particles') : particles'[i].lifetime > 0

\* C14: a listed particle has 1 <= lifetime <= max_life and alpha in
\* [0,1]; each tick advances every particle once and removes it in the tick
\* its lifetime reaches 0, i.e. after exactly max_life advances, so that
\* a particle is gone max_life ticks after the landing that spawned it.
Thm_C14_ParticleLife ==
    /\ []ParticlesAlive
    /\ [][ParticlesAged]_vars

\* The particles of a landing have lived their 15 advances and are gone,
\* while those of a later landing are still in the list.
Wit_C14_Expired ==
    /\ frame_timer >= 16
    /\ ground_contact.ticks >= 1
    /\ Len(particles) = 10
    /\ \A i \in 1..Len(particles) : BirthTick(particles[i]) > 2

(* ---------------------------------------------------------------------- *)
(* Ceiling: an empty room three cells wide and RoomHeight cells high; the  *)
(* actor stands on its floor and the jump key is held, with any left and   *)
(* right keys.                                                             *)
(* ---------------------------------------------------------------------- *)
MaxFramesCeiling == 7

RoomHeight == 2

CeilingRoom == TileMapNew(3, RoomHeight, CellSize, CellSize)

InitCeiling ==
    MainInit(CeilingRoom, PlayerHitbox, CellSize, (RoomHeight - 1) * CellSize)

CeilingKeys == {k \in KeyStates : k.up}

FrameCeiling == frame_timer < MaxFramesCeiling /\ \E k \in CeilingKeys : Tick(k)

NextCeiling == FrameCeiling

SpecCeiling == InitCeiling /\ [][NextCeiling]_vars

\* v_speed as the vertical pass of the coming frame reads it (line 285)
VSpeedIntoPass == Step(keys', PressEdge).v_jump

\* The vertical pass of the coming frame finds a blocking cell
VerticalBlocked ==
    colliding(tilemap, player_x', player_y + VSpeedIntoPass, player_hitbox)

VerticalCollider ==
    colliding_with(tilemap, player_x', player_y + VSpeedIntoPass, player_hitbox)[1]

\* C15: whenever the vertical pass finds a blocking cell, a downward move
\* ends with the hitbox bottom on the cell's top, an upward move ends with
\* the hitbox top at the cell's bottom + 0.01, and v_speed becomes 0,
\* whatever h_speed is.
Orig_C15_VerticalSnap ==
    [][VerticalBlocked =>
          /\ VSpeedIntoPass > 0 =>
                player_y' + player_hitbox.y + player_hitbox.h = VerticalCollider.y
          /\ VSpeedIntoPass < 0 =>
                player_y' + player_hitbox.y = RectBottom(VerticalCollider) + Epsilon
          /\ v_speed' = 0]_vars

(* ---------------------------------------------------------------------- *)
(* Alcove: a room two cells wide and two high whose top left cell is       *)
(* solid.  The actor starts at any of a few positions that the overlap     *)
(* test reports free, one of them with the hitbox top on the lower edge of *)
(* the solid cell.                                                         *)
(* ---------------------------------------------------------------------- *)
MaxFramesWall == 3

Alcove == LoadLevel(TileMapNew(2, 2, CellSize, CellSize), <<1, 0, 0, 0>>, 2)

WallXs == {0, CellSize}

WallYs == {CellSize - Unit, CellSize - 2 * Unit}

InitWall ==
    \E x \in WallXs, y \in WallYs :
        /\ ~colliding(Alcove, x, y, PlayerHitbox)
        /\ MainInit(Alcove, PlayerHitbox, x, y)

FrameWall == frame_timer < MaxFramesWall /\ \E k \in KeyStates : Tick(k)

NextWall == FrameWall

SpecWall == InitWall /\ [][NextWall]_vars

\* C16: from a start the overlap test reports free, the overlap test
\* reports the actor's position free at the end of every tick.
Orig_C16_NeverInWall == ~colliding(tilemap, player_x, player_y, player_hitbox)

\* C19: from a start inside the world that the overlap test reports free,
\* the hitbox rectangle lies within [0, total_width] x [0, total_height] at
\* the end of every tick.
Orig_C19_InsideWorld ==
    /\ HitLeft >= 0
    /\ HitRight <= total_width(tilemap)
    /\ HitTop >= 0
    /\ HitBottom <= total_height(tilemap)

(* ---------------------------------------------------------------------- *)
(* Ledge: a room two cells wide and LedgeHeight high with a one cell       *)
(* platform at the left wall.  The actor rests at the platform's right     *)
(* edge and may walk off it.                                               *)
(* ---------------------------------------------------------------------- *)
MaxFramesLedge == 7

LedgeHeight == 4

Ledge ==
    TileMapSet(TileMapNew(2, LedgeHeight, CellSize, CellSize), 0, 1, 1)

InitLedge == MainInit(Ledge, PlayerHitbox, CellSize - 250, 0)

LedgeKeys == {k \in KeyStates : ~k.left}

FrameLedge == frame_timer < MaxFramesLedge /\ \E k \in LedgeKeys : Tick(k)

NextLedge == FrameLedge

SpecLedge == InitLedge /\ [][NextLedge]_vars

\* The coming frame's ground test fails, after a ground contact and with
\* no jump since.
FellOff ==
    /\ ~Grounded
    /\ ground_contact.ticks + ground_contact.air >= 1
    /\ ground_contact.jumps = 0

\* The coming frame starts a jump that is charged to the ground: no extra
\* jump is consumed and in_extra_jump stays false.
GroundedJump ==
    /\ "jump" \in audio'
    /\ current_extra_jumps' = current_extra_jumps
    /\ ~in_extra_jump'

\* C17: after the actor leaves a platform without jumping, a press edge on
\* any of the first jump_grace_frames frames without ground contact starts
\* a grounded jump, and a press edge on a later frame does not.
Orig_C17_GraceWindow ==
    [][(PressEdge /\ FellOff) =>
          (GroundedJump <=> ground_contact'.air <= jump_grace_frames)]_vars

(* ---------------------------------------------------------------------- *)
(* Hold: the actor starts one pixel above the floor of a shaft HoldHeight  *)
(* cells high, too high for a held jump to reach its top, and only the     *)
(* jump key is used.                                                       *)
(* ---------------------------------------------------------------------- *)
MaxFramesHold == 13

HoldHeight == 7

InitHold ==
    MainInit(Shaft(HoldHeight), PlayerHitbox, 0, HoldHeight * CellSize - 17 * Unit)

FrameHold == frame_timer < MaxFramesHold /\ \E k \in ParticleKeys : Tick(k)

NextHold == FrameHold

SpecHold == InitHold /\ [][NextHold]_vars

\* The coming frame applies the hold boost of line 257 to v_speed
Boosted ==
    Step(keys', PressEdge).v_jump =
        VSpeedAfterGravity(v_speed) - (jump_increase_velocity + gravity)

\* C18: with the jump key down ever since a jump started, the frames after
\* the jump frame get the hold boost up to the just_pressed_timer_duration-th
\* one, and none after it.
Orig_C18_HoldWindow ==
    [][ground_contact'.hold >= 1 =>
          (Boosted <=> ground_contact'.hold <= just_pressed_timer_duration)]_vars

\* C20: the jumps started since the last frame with ground contact, that
\* frame's own jump included, number at most 1 + extra_jumps.
Orig_C20_JumpLimit == ground_contact.jumps <= 1 + extra_jumps

\* C3: at the end of every frame the horizontal speed is at most top_speed
\* in magnitude, whatever the left/right keys and the level.
Thm_C3_HSpeedCapped == abs(h_speed) <= top_speed

\* The cap binds: the player runs at top speed.
Wit_C3_TopSpeed == frame_timer > 0 /\ abs(h_speed) = top_speed

\* C4: from the initial state, at the end of every frame the vertical speed
\* is at most max_gravity in magnitude, whatever the keys, also on frames
\* with a jump or a jump-hold boost.
Thm_C4_VSpeedCapped == abs(v_speed) <= max_gravity

\* The player has fallen at terminal speed, landed, jumped and held the jump.
Wit_C4_BoostAfterFall ==
    /\ v_speed = -(initial_jump_speed + jump_increase_velocity)
    /\ keys.up
    /\ just_pressed_timer = just_pressed_timer_duration - 2
====
